---- MODULE Spec2Model ----
(***************************************************************************)
(* Symbol resolution and cross-reference engine of mdbook-protobuf.        *)
(*                                                                         *)
(* Strings are sequences of one-character strings, so that prefix tests,   *)
(* splitting and replacing are computed character by character as the     *)
(* Rust code computes them.  Option<T> is a sequence of length 0 or 1.     *)
(***************************************************************************)
EXTENDS Integers, Sequences, FiniteSets, TLC

VARIABLES
    packages,        \* HashSet<String> of the known package names
    symbol_usages,   \* HashMap<SymbolLink, Vec<Backlink>>: the cross-reference graph
    todo,            \* the declarations of the descriptor set the indexer has not visited yet
    phase,           \* position of the run: "index", "pages", "chapter", "failed",
                     \* "attached", "emitted"
    pages_done,      \* number of chapters link_proto_symbols has returned Ok for
    parsed,          \* number of parser events handled in the run so far
    chapter,         \* the Chapter being rewritten (name, path), or NoChapter
    events,          \* the parser events of the chapter consumed so far
    links,           \* link_proto_symbols' snapshot of the graph's keys
    chapter_link_id, \* link_proto_symbols' citation counter
    current_link,    \* link_proto_symbols' Option<SymbolLink> of the open reference
    rendered,        \* the events link_proto_symbols has emitted for the chapter
    resolved,        \* what the last reference did: query, matches, outcome
    err,             \* Option<error lines> the run has failed with
    fqsl_arg,        \* the raw name handed to SymbolLink::from_fqsl
    fqsl_ret,        \* Option<SymbolLink> it returned
    document,        \* the entities of the rendered namespaces, with their backlinks
    before,          \* the graph and the page text as they were when the rewrite of
                     \* the chapter was called
    location,        \* the Location::span handed to Source::from_location
    src,             \* Option<outcome> of that call: a Source or a panic
    book,            \* the sections of the Book handed to ProtobufPreprocessor::run
    nest_under,      \* Option<String>: the nest_under key of the configuration
    file_packages,   \* the package of every file of the descriptor set, in file order
    processed_book   \* Option<outcome> of run: the sections of the book or a panic

vars == <<packages, symbol_usages, todo, phase, pages_done, parsed, chapter, events, links,
          chapter_link_id, current_link, rendered, resolved, err, fqsl_arg, fqsl_ret, document, before,
          location, src, book, nest_under, file_packages, processed_book>>

\* the variables of the calls that are checked on their own
call_vars == <<location, src, book, nest_under, file_packages, processed_book>>

rewrite_vars == <<parsed, chapter, events, links, chapter_link_id, current_link,
                  rendered, resolved, err>>

---------------------------------------------------------------------------
(* Bounds of the model.                                                    *)

MaxNameLen == 5
MaxPackages == 2
MaxEvents == 3
MaxChapters == 2

---------------------------------------------------------------------------
(* Option and string primitives.                                           *)

None == <<>>
Some(x) == <<x>>
IsSome(o) == Len(o) = 1
Unwrap(o) == o[1]

Concat3(a, b, c) == a \o b \o c

\* str::starts_with
starts_with(s, p) == Len(p) <= Len(s) /\ SubSeq(s, 1, Len(p)) = p

\* str::ends_with
str_ends_with(s, p) == Len(p) <= Len(s) /\ SubSeq(s, Len(s) - Len(p) + 1, Len(s)) = p

\* s[n..]
DropFirst(s, n) == SubSeq(s, n + 1, Len(s))

\* str::replace for a one-character pattern
replace(s, from, to) == [i \in 1..Len(s) |-> IF s[i] = from THEN to ELSE s[i]]

\* str::strip_prefix
strip_prefix(s, p) == IF starts_with(s, p) THEN Some(DropFirst(s, Len(p))) ELSE None

\* str::split on a one-character separator: never empty, "" splits to [""]
RECURSIVE split(_, _)
split(s, sep) ==
    LET I == {i \in 1..Len(s) : s[i] = sep}
    IN  IF I = {} THEN <<s>>
        ELSE LET i == CHOOSE j \in I : \A k \in I : j <= k
             IN  <<SubSeq(s, 1, i - 1)>> \o split(DropFirst(s, i), sep)

\* slice::ends_with that finds the slice anywhere, not only at the end
slice_contains(xs, ys) ==
    \E i \in 0..(Len(xs) - Len(ys)) : SubSeq(xs, i + 1, i + Len(ys)) = ys

\* slice::ends_with
slice_ends_with(xs, ys) ==
    Len(ys) <= Len(xs) /\ SubSeq(xs, Len(xs) - Len(ys) + 1, Len(xs)) = ys

\* str::rfind for a one-character pattern
rfind(s, c) ==
    LET I == {i \in 1..Len(s) : s[i] = c}
    IN  IF I = {} THEN None ELSE Some(CHOOSE j \in I : \A k \in I : k <= j)

---------------------------------------------------------------------------
(* SymbolLink (links.rs).                                                  *)

SymbolLink(symbol, path, property, label_override, own_id) ==
    [symbol |-> symbol, path |-> path, property |-> property,
     label_override |-> label_override, own_id |-> own_id]

\* derive(PartialEq, Eq, Hash) on the struct: field by field, all five fields
SymbolLinkEq(a, b) ==
    /\ a.symbol = b.symbol
    /\ a.path = b.path
    /\ a.property = b.property
    /\ a.label_override = b.label_override
    /\ a.own_id = b.own_id

split_property(fqsl) ==
    LET I == {i \in 1..(Len(fqsl) - 1) : fqsl[i] = ":" /\ fqsl[i + 1] = ":"}
    IN  IF I = {} THEN <<fqsl, None>>
        ELSE LET i == CHOOSE j \in I : \A k \in I : j <= k
             IN  <<SubSeq(fqsl, 1, i - 1), Some(DropFirst(fqsl, i + 1))>>

\* filter on a raw string prefix, then max_by_key(len): the packages are
\* distinct, so two matching packages never have the same length
find_best_match(fqsl, pkgs) ==
    LET M == {pkg \in pkgs : starts_with(DropFirst(fqsl, 1), pkg)}
    IN  IF M = {} THEN None
        ELSE Some(CHOOSE p \in M : \A q \in M : Len(q) <= Len(p))

\* fqsl_no_prop[1..] panics on a string that has no first character
from_fqsl_never_panics(fqsl) == FALSE

from_fqsl_panics(fqsl) == Len(split_property(fqsl)[1]) < 1

from_fqsl(fqsl, pkgs) ==
    LET sp == split_property(fqsl)
        fqsl_no_prop == sp[1]
        property == sp[2]
        best_match == find_best_match(fqsl_no_prop, pkgs)
        path == IF IsSome(best_match) THEN replace(Unwrap(best_match), ".", "/") ELSE <<>>
        rest == DropFirst(fqsl_no_prop, 1)
        prefix == (IF IsSome(best_match) THEN Unwrap(best_match) ELSE <<>>) \o <<".">>
        stripped == strip_prefix(rest, prefix)
        symbol == IF IsSome(stripped) THEN Unwrap(stripped) ELSE rest
    IN  SymbolLink(symbol, path, property, None, None)

\* set_property() that leaves the link as it is
set_property_dropped(link, property) == link

set_property(link, property) == [link EXCEPT !.property = Some(property)]

id(link) ==
    IF IsSome(link.property)
    THEN Concat3(link.symbol, <<":", ":">>, Unwrap(link.property))
    ELSE link.symbol

\* fqsl() that leaves the path out
fqsl_without_path(link) == <<".">> \o id(link)

fqsl(link) == <<".">> \o replace(link.path, "/", ".") \o <<".">> \o id(link)

label(link) ==
    IF IsSome(link.label_override) THEN Unwrap(link.label_override)
    ELSE LET f == fqsl(link)
             index == rfind(f, ".")
         IN  IF IsSome(index) THEN DropFirst(f, Unwrap(index)) ELSE f

set_label(link, l) == [link EXCEPT !.label_override = Some(l)]

\* href() without the proto/ directory the generated pages live in
href_without_proto(link) == <<"/">> \o link.path \o <<".", "m", "d", "#">> \o id(link)

href(link) ==
    <<"/", "p", "r", "o", "t", "o", "/">> \o link.path \o <<".", "m", "d", "#">> \o id(link)

set_own_id(link, i) == [link EXCEPT !.own_id = Some(i)]

\* matches() on the raw strings instead of on the segments
matches_raw_suffix(link, query) == str_ends_with(fqsl(link), query)

matches(link, query) ==
    LET query_parts == split(query, ".")
        fqsl_parts == split(fqsl(link), ".")
    IN  slice_ends_with(fqsl_parts, query_parts)

---------------------------------------------------------------------------
(* Inputs of SymbolLink::from_fqsl: dotted names without empty segments.   *)

Letters == {"a", "b"}

\* a dotted name: letters and separators, no empty segment
WellFormed(w) ==
    /\ Len(w) >= 1
    /\ w[1] # "." /\ w[Len(w)] # "."
    /\ \A i \in 1..(Len(w) - 1) : ~(w[i] = "." /\ w[i + 1] = ".")

DottedNames(n) ==
    {w \in UNION {[1..k -> Letters \cup {"."}] : k \in 1..n} : WellFormed(w)}

PackageUniverse ==
    {<<"a">>, <<"b">>, <<"a", "b">>, <<"a", ".", "a">>, <<"a", ".", "b">>}

PropertyUniverse == {<<"a">>, <<"b", "a">>}

PackageSets == {S \in SUBSET PackageUniverse : Cardinality(S) <= MaxPackages}

\* raw fully-qualified names: the separator, a dotted name, and maybe ::property
RawNames ==
    {<<".">> \o w : w \in DottedNames(MaxNameLen)}
    \cup {<<".">> \o w \o <<":", ":">> \o p :
            w \in DottedNames(MaxNameLen), p \in PropertyUniverse}

NoChapter == [name |-> <<>>, path |-> None, content |-> None]
NoBefore == [symbol_usages |-> <<>>, content |-> None]
NoResolution == [query |-> None, matches |-> {}, scored_links |-> <<>>, outcome |-> "none"]
EmptyGraph == <<>>

\* no call of Source::from_location and none of run
IdleCalls ==
    /\ location = <<>>
    /\ src = None
    /\ book = <<>>
    /\ nest_under = None
    /\ file_packages = <<>>
    /\ processed_book = None

IdleRewriter ==
    /\ parsed = 0
    /\ chapter = NoChapter
    /\ events = <<>>
    /\ links = {}
    /\ chapter_link_id = 1
    /\ current_link = None
    /\ rendered = <<>>
    /\ resolved = NoResolution
    /\ err = None

\* the raw name without its ::property, and without the leading separator
NameOf(raw) ==
    LET I == {i \in 1..(Len(raw) - 1) : raw[i] = ":" /\ raw[i + 1] = ":"}
        stop == IF I = {} THEN Len(raw) ELSE (CHOOSE j \in I : \A k \in I : j <= k) - 1
    IN  SubSeq(raw, 2, stop)

\* A descriptor set never gives a symbol the full name of a package.
InitFqsl ==
    /\ packages \in PackageSets
    /\ fqsl_arg \in RawNames
    /\ NameOf(fqsl_arg) \notin packages
    /\ fqsl_ret = None
    /\ symbol_usages = EmptyGraph
    /\ todo = <<>>
    /\ phase = "index"
    /\ pages_done = 0
    /\ document = <<>>
    /\ before = NoBefore
    /\ IdleRewriter
    /\ IdleCalls

\* one call of SymbolLink::from_fqsl(fqsl_arg, &packages)
CallFromFqsl ==
    /\ fqsl_ret = None
    /\ fqsl_ret' = Some(from_fqsl(fqsl_arg, packages))
    /\ UNCHANGED <<packages, symbol_usages, todo, phase, pages_done, fqsl_arg, document,
                   before, call_vars>>
    /\ UNCHANGED rewrite_vars

NextFqsl == CallFromFqsl

SpecFqsl == InitFqsl /\ [][NextFqsl]_vars

---------------------------------------------------------------------------
(* C1, C2: SymbolLink::from_fqsl.                                          *)

\* C1: from_fqsl picks the longest known package that is a prefix of the name:
\* path is that package with '.' replaced by '/', and symbol is the rest of the
\* name after that package and its separator; if no known package is a prefix,
\* path is empty and symbol is the whole name minus the leading separator.
C1_LongestPrefixSplit ==
    IsSome(fqsl_ret) =>
        LET r == Unwrap(fqsl_ret)
            name == NameOf(fqsl_arg)
            M == {p \in packages : starts_with(name, p)}
        IN  IF M = {}
            THEN r.path = <<>> /\ r.symbol = name
            ELSE \E p \in M :
                    /\ \A q \in M : Len(q) <= Len(p)
                    /\ r.path = replace(p, ".", "/")
                    /\ name = p \o <<".">> \o r.symbol

\* the packages that own the name: known, and followed in it by the separator
OwningPackages(name, pkgs) == {p \in pkgs : starts_with(name, p \o <<".">>)}

\* C2: for a name .<package>.<Symbol>::<Property> whose <package> is the known
\* package that owns it, from_fqsl yields symbol = <Symbol> and property =
\* Some(<Property>) and id() reproduces <Symbol>::<Property>; for a name
\* without ::, property is None and id() equals the symbol.
C2_PropertyRoundTrip ==
    IsSome(fqsl_ret) =>
        LET r == Unwrap(fqsl_ret)
            name == NameOf(fqsl_arg)
            O == OwningPackages(name, packages)
            hasProp == Len(fqsl_arg) > Len(name) + 1
            Property == DropFirst(fqsl_arg, Len(name) + 3)
        IN  /\ ~hasProp => (r.property = None /\ id(r) = r.symbol)
            /\ \A p \in O :
                 (hasProp /\ \A q \in O : Len(q) <= Len(p)) =>
                    LET Symbol == DropFirst(name, Len(p) + 1)
                    IN  /\ r.symbol = Symbol
                        /\ r.property = Some(Property)
                        /\ id(r) = Symbol \o <<":", ":">> \o Property

\* the name continues with a separator after every known package it starts with
SegmentAligned(name, pkgs) ==
    \A p \in pkgs : starts_with(name, p) => starts_with(name, p \o <<".">>)

\* what C1 and C2 say holds of every name the known packages prefix on segment
\* boundaries only
AlignedNamesSplit ==
    (IsSome(fqsl_ret) /\ SegmentAligned(NameOf(fqsl_arg), packages)) =>
        (C1_LongestPrefixSplit /\ C2_PropertyRoundTrip)

---------------------------------------------------------------------------
(* The cross-reference graph: HashMap<SymbolLink, Vec<Backlink>>.  A key is *)
(* found by the derived Eq of SymbolLink.                                  *)

ContentBacklink(path, i, l) == [kind |-> "Content", path |-> path, id |-> i, label |-> l]
SymbolBacklink(link) == [kind |-> "Symbol", link |-> link]

\* the keys of g that are equal to k (at most one)
KeysEqual(g, k) == {k2 \in DOMAIN g : SymbolLinkEq(k2, k)}

contains_key(g, k) == KeysEqual(g, k) # {}

\* HashMap::get
get(g, k) ==
    IF contains_key(g, k) THEN Some(g[CHOOSE k2 \in KeysEqual(g, k) : TRUE]) ELSE None

\* HashMap::entry(k).or_default()
entry_or_default(g, k) ==
    IF contains_key(g, k) THEN g
    ELSE [x \in DOMAIN g \cup {k} |-> IF x \in DOMAIN g THEN g[x] ELSE <<>>]

\* entry(k).or_default().push(v) that skips a value the list already holds
entry_push_once(g, k, v) ==
    LET g1 == entry_or_default(g, k)
        key == CHOOSE k2 \in KeysEqual(g1, k) : TRUE
    IN  IF \E i \in 1..Len(g1[key]) : g1[key][i] = v THEN g1
        ELSE [g1 EXCEPT ![key] = Append(@, v)]

\* entry(k).or_default() with the list replaced by the value
entry_push_replacing(g, k, v) ==
    LET g1 == entry_or_default(g, k)
        key == CHOOSE k2 \in KeysEqual(g1, k) : TRUE
    IN  [g1 EXCEPT ![key] = <<v>>]

\* entry(k).or_default() with the value put in front of the list
entry_push_front(g, k, v) ==
    LET g1 == entry_or_default(g, k)
        key == CHOOSE k2 \in KeysEqual(g1, k) : TRUE
    IN  [g1 EXCEPT ![key] = <<v>> \o @]

\* HashMap::entry(k).or_default().push(v)
entry_push(g, k, v) ==
    LET g1 == entry_or_default(g, k)
        key == CHOOSE k2 \in KeysEqual(g1, k) : TRUE
    IN  [g1 EXCEPT ![key] = Append(@, v)]

---------------------------------------------------------------------------
(* The descriptor sets the indexer is run on.                              *)

RECURSIVE join(_, _)
\* [String]::join
join(segs, sep) ==
    IF Len(segs) = 0 THEN <<>>
    ELSE IF Len(segs) = 1 THEN segs[1]
    ELSE segs[1] \o sep \o join(Tail(segs), sep)

FldIn(name, typ, oneof_index) == [name |-> name, typ |-> typ, oneof_index |-> oneof_index]
Fld(name, typ) == FldIn(name, typ, None)
Enm(name) == [name |-> name]
MsgE(name, fields, nested, enums) ==
    [name |-> name, fields |-> fields, nested |-> nested, enums |-> enums]
Msg(name, fields, nested) == MsgE(name, fields, nested, <<>>)
MthO(name, input_type, output_type) ==
    [name |-> name, input_type |-> input_type, output_type |-> output_type]
Mth(name, input_type, output_type) == MthO(name, Some(input_type), Some(output_type))
Svc(name, methods) == [name |-> name, methods |-> methods]
FileE(package, services, messages, enums) ==
    [package |-> package, services |-> services, messages |-> messages, enums |-> enums]
File(package, services, messages) == FileE(package, services, messages, <<>>)

pkg_a == <<"a">>
pkg_a_b == <<"a", ".", "b">>
sym_X == <<"X">>
sym_Y == <<"Y">>
sym_bX == <<"b", "X">>
name_f == <<"f">>
name_g == <<"g">>
name_m == <<"m">>
type_a_X == <<".", "a", ".", "X">>
type_a_Y == <<".", "a", ".", "Y">>
type_a_X_Y == <<".", "a", ".", "X", ".", "Y">>
type_a_bX == <<".", "a", ".", "b", "X">>
type_a_b_X == <<".", "a", ".", "b", ".", "X">>

\* no file at all
DescriptorEmpty == <<>>

\* package a: message X with a field of its own type
DescriptorSelf ==
    <<File(pkg_a, <<>>, <<Msg(sym_X, <<Fld(name_f, Some(type_a_X))>>, <<>>)>>)>>

\* package a: message X with nested message Y, each a field of the other's type
DescriptorNested ==
    <<File(pkg_a, <<>>,
        <<Msg(sym_X, <<Fld(name_f, Some(type_a_X_Y)), Fld(name_g, None)>>,
            <<Msg(sym_Y, <<Fld(name_f, Some(type_a_X))>>, <<>>)>>)>>)>>

\* packages a and a.b, a message X in each, and a message bX in package a
DescriptorTwoPackages ==
    <<File(pkg_a, <<>>,
        <<Msg(sym_X, <<Fld(name_f, Some(type_a_b_X)), Fld(name_g, Some(type_a_bX))>>, <<>>),
          Msg(sym_bX, <<>>, <<>>)>>),
      File(pkg_a_b, <<>>, <<Msg(sym_X, <<Fld(name_f, Some(type_a_X))>>, <<>>)>>)>>

\* package a: service X with method m from message bX to message X.Y
DescriptorService ==
    <<File(pkg_a, <<Svc(sym_X, <<Mth(name_m, type_a_bX, type_a_X_Y)>>)>>,
        <<Msg(sym_bX, <<>>, <<>>), Msg(sym_X, <<>>, <<Msg(sym_Y, <<>>, <<>>)>>)>>)>>

\* package a: service Y whose method takes and returns message X
DescriptorEcho ==
    <<File(pkg_a, <<Svc(sym_Y, <<Mth(name_m, type_a_X, type_a_X)>>)>>,
        <<Msg(sym_X, <<>>, <<>>)>>)>>

\* package a: enum Y, and message X with a nested enum Y, a field of each enum
\* type, the second one inside a oneof group
DescriptorEnums ==
    <<FileE(pkg_a, <<>>,
        <<MsgE(sym_X, <<Fld(name_f, Some(type_a_Y)),
                        FldIn(name_g, Some(type_a_X_Y), Some(0))>>,
               <<>>, <<Enm(sym_Y)>>)>>,
        <<Enm(sym_Y)>>)>>

\* package a: message X with a field of message type whose type name is absent
DescriptorNoFieldType ==
    <<File(pkg_a, <<>>,
        <<Msg(sym_X, <<Fld(name_f, Some(type_a_X)), Fld(name_g, Some(<<>>))>>, <<>>)>>)>>

\* package a: service Y whose method has no request type name
DescriptorNoRequest ==
    <<File(pkg_a, <<Svc(sym_Y, <<MthO(name_m, None, Some(type_a_X))>>)>>,
        <<Msg(sym_X, <<>>, <<>>)>>)>>

\* package a: service Y whose method has no response type name
DescriptorNoResponse ==
    <<File(pkg_a, <<Svc(sym_Y, <<MthO(name_m, Some(type_a_X), None)>>)>>,
        <<Msg(sym_X, <<>>, <<>>)>>)>>

DescriptorSets ==
    {DescriptorEmpty, DescriptorSelf, DescriptorNested, DescriptorTwoPackages,
     DescriptorService, DescriptorEcho, DescriptorEnums, DescriptorNoFieldType,
     DescriptorNoRequest, DescriptorNoResponse}

\* the packages of the files of the set
PackagesOf(fds) == {fds[i].package : i \in 1..Len(fds)}

RECURSIVE FlattenSeq(_)
FlattenSeq(ss) == IF Len(ss) = 0 THEN <<>> ELSE Head(ss) \o FlattenSeq(Tail(ss))

ServiceSteps(package, s) ==
    <<[op |-> "service", package |-> package, name |-> s.name]>>
    \o [i \in 1..Len(s.methods) |->
          [op |-> "method", package |-> package, service |-> s.name,
           name |-> s.methods[i].name,
           input_type |-> s.methods[i].input_type,
           output_type |-> s.methods[i].output_type]]

\* an enum of the file (namespace empty) or nested in a message
EnumSteps(package, namespace, e) ==
    <<[op |-> "enum", package |-> package, namespace |-> namespace, name |-> e.name]>>

RECURSIVE MessageSteps(_, _, _)
\* a message, its fields in declaration order, then its nested messages, then
\* its nested enums
MessageSteps(package, parent_messages, m) ==
    LET message_path == Append(parent_messages, m.name)
    IN  <<[op |-> "message", package |-> package, parent_messages |-> parent_messages,
           message_path |-> message_path,
           field_types |-> [i \in 1..Len(m.fields) |-> m.fields[i].typ]]>>
        \o [i \in 1..Len(m.fields) |->
            [op |-> "field", package |-> package, message_path |-> message_path,
             name |-> m.fields[i].name, typ |-> m.fields[i].typ,
             oneof_index |-> m.fields[i].oneof_index]]
        \o FlattenSeq([i \in 1..Len(m.nested) |->
                          MessageSteps(package, message_path, m.nested[i])])
        \o FlattenSeq([i \in 1..Len(m.enums) |->
                          EnumSteps(package, message_path, m.enums[i])])

\* a file: its services with their methods, then its messages, then its enums
FileSteps(f) ==
    FlattenSeq([i \in 1..Len(f.services) |-> ServiceSteps(f.package, f.services[i])])
    \o FlattenSeq([i \in 1..Len(f.messages) |-> MessageSteps(f.package, <<>>, f.messages[i])])
    \o FlattenSeq([i \in 1..Len(f.enums) |-> EnumSteps(f.package, <<>>, f.enums[i])])

IndexSteps(fds) == FlattenSeq([i \in 1..Len(fds) |-> FileSteps(fds[i])])

---------------------------------------------------------------------------
(* The Descriptor Indexer (view.rs): one action per declaration that can   *)
(* write to the graph.                                                     *)

Init ==
    /\ \E fds \in DescriptorSets :
          /\ packages = PackagesOf(fds)
          /\ todo = IndexSteps(fds)
    /\ symbol_usages = EmptyGraph
    /\ phase = "index"
    /\ pages_done = 0
    /\ document = <<>>
    /\ before = NoBefore
    /\ IdleRewriter
    /\ IdleCalls
    /\ fqsl_arg = <<>>
    /\ fqsl_ret = None

DeclaredName(package, path) == <<".">> \o package \o <<".">> \o join(path, <<".">>)

\* an entity of the document: a Message, Enum, Service or Method, in the list
\* of the file, of a message or of a service; backlinks: Default::default()
Entity(kind, owner, self_link) ==
    [kind |-> kind, owner |-> owner, self_link |-> self_link, backlinks |-> <<>>]

\* m.input_type.clone().unwrap() or m.output_type.clone().unwrap() on None,
\* or from_fqsl on a name without a first character
MethodPanics(d) ==
    IF d.input_type = None \/ d.output_type = None THEN TRUE
    ELSE from_fqsl_panics(Unwrap(d.input_type)) \/ from_fqsl_panics(Unwrap(d.output_type))

\* all_fields is collected before anything else of the message: a field of
\* message or enum type whose type_name() is "" panics in from_fqsl
MessagePanics(d) ==
    \E i \in 1..Len(d.field_types) :
        IsSome(d.field_types[i]) /\ from_fqsl_panics(Unwrap(d.field_types[i]))

\* a service: its identity becomes a key
IndexService ==
    /\ phase = "index"
    /\ todo # <<>>
    /\ Head(todo).op = "service"
    /\ LET d == Head(todo)
           service_link == from_fqsl(DeclaredName(d.package, <<d.name>>), packages)
       IN  /\ symbol_usages' = entry_or_default(symbol_usages, service_link)
           /\ document' = Append(document, Entity("service", "file", service_link))
    /\ todo' = Tail(todo)
    /\ UNCHANGED <<packages, phase, pages_done, fqsl_arg, fqsl_ret, call_vars, before>>
    /\ UNCHANGED rewrite_vars

\* a method: its identity becomes a key, and it is pushed onto the request
\* type's and onto the response type's list
IndexMethod ==
    /\ phase = "index"
    /\ todo # <<>>
    /\ Head(todo).op = "method"
    /\ ~MethodPanics(Head(todo))
    /\ LET d == Head(todo)
           service_link == from_fqsl(DeclaredName(d.package, <<d.service>>), packages)
           method_link == set_property(service_link, d.name)
           g1 == entry_or_default(symbol_usages, method_link)
           request_message == from_fqsl(Unwrap(d.input_type), packages)
           g2 == entry_push(g1, request_message, SymbolBacklink(method_link))
           response_message == from_fqsl(Unwrap(d.output_type), packages)
           g3 == entry_push(g2, response_message, SymbolBacklink(method_link))
       IN  /\ symbol_usages' = g3
           /\ document' = Append(document, Entity("method", "service", method_link))
    /\ todo' = Tail(todo)
    /\ UNCHANGED <<packages, phase, pages_done, fqsl_arg, fqsl_ret, call_vars, before>>
    /\ UNCHANGED rewrite_vars

\* a message: it becomes an entity of the document
IndexMessage ==
    /\ phase = "index"
    /\ todo # <<>>
    /\ Head(todo).op = "message"
    /\ ~MessagePanics(Head(todo))
    /\ LET d == Head(todo)
           self_link == from_fqsl(DeclaredName(d.package, d.message_path), packages)
           owner == IF d.parent_messages = <<>> THEN "file" ELSE "message"
       IN  document' = Append(document, Entity("message", owner, self_link))
    /\ todo' = Tail(todo)
    /\ UNCHANGED <<packages, symbol_usages, phase, pages_done, fqsl_arg, fqsl_ret, call_vars, before>>
    /\ UNCHANGED rewrite_vars

\* an enum: it becomes an entity of the document
IndexEnum ==
    /\ phase = "index"
    /\ todo # <<>>
    /\ Head(todo).op = "enum"
    /\ LET d == Head(todo)
           self_link == from_fqsl(DeclaredName(d.package, Append(d.namespace, d.name)),
                                  packages)
           owner == IF d.namespace = <<>> THEN "file" ELSE "message"
       IN  document' = Append(document, Entity("enum", owner, self_link))
    /\ todo' = Tail(todo)
    /\ UNCHANGED <<packages, symbol_usages, phase, pages_done, fqsl_arg, fqsl_ret, call_vars, before>>
    /\ UNCHANGED rewrite_vars

\* a field: when its type is a message or an enum, the field is pushed onto the
\* type's list
IndexField ==
    /\ phase = "index"
    /\ todo # <<>>
    /\ Head(todo).op = "field"
    /\ LET d == Head(todo)
           self_link == from_fqsl(DeclaredName(d.package, d.message_path), packages)
           field_ref == set_property(self_link, d.name)
       IN  IF IsSome(d.typ)
           THEN symbol_usages' =
                  entry_push(symbol_usages, from_fqsl(Unwrap(d.typ), packages),
                             SymbolBacklink(field_ref))
           ELSE UNCHANGED symbol_usages
    /\ todo' = Tail(todo)
    /\ UNCHANGED <<packages, phase, pages_done, fqsl_arg, fqsl_ret, call_vars, document, before>>
    /\ UNCHANGED rewrite_vars

\* a panic of the indexer: the process aborts with what was written so far
IndexPanic ==
    /\ phase = "index"
    /\ todo # <<>>
    /\ LET d == Head(todo)
       IN  \/ /\ d.op = "message"
              /\ MessagePanics(d)
              /\ UNCHANGED symbol_usages
           \/ /\ d.op = "method"
              /\ MethodPanics(d)
              /\ LET service_link ==
                         from_fqsl(DeclaredName(d.package, <<d.service>>), packages)
                     method_link == set_property(service_link, d.name)
                     g1 == entry_or_default(symbol_usages, method_link)
                     no_request == IF d.input_type = None THEN TRUE
                                   ELSE from_fqsl_panics(Unwrap(d.input_type))
                 IN  IF no_request
                     THEN symbol_usages' = g1
                     ELSE symbol_usages' =
                            entry_push(g1, from_fqsl(Unwrap(d.input_type), packages),
                                       SymbolBacklink(method_link))
    /\ phase' = "panicked"
    /\ UNCHANGED <<packages, todo, pages_done, fqsl_arg, fqsl_ret, call_vars, document, before>>
    /\ UNCHANGED rewrite_vars

\* the whole descriptor set is indexed: the pages are rewritten next
FinishIndexing ==
    /\ phase = "index"
    /\ todo = <<>>
    /\ phase' = "pages"
    /\ UNCHANGED <<packages, symbol_usages, todo, pages_done, fqsl_arg, fqsl_ret, call_vars, document, before>>
    /\ UNCHANGED rewrite_vars

---------------------------------------------------------------------------
(* The Content Rewriter (links.rs, link_proto_symbols): one action per     *)
(* parser event, as the filter_map closure handles it.                     *)

StartLinkEv(dest) == [type |-> "StartLink", dest |-> dest]
TextEv(text) == [type |-> "Text", text |-> text]
EndLinkEv == [type |-> "EndLink"]
OtherEv == [type |-> "Other"]
InlineHtmlEv(html) == [type |-> "InlineHtml", html |-> html]

\* the parser is inside a link: the last link event it gave opened one
InLink(evs) ==
    \E i \in 1..Len(evs) :
        /\ evs[i].type = "StartLink"
        /\ \A j \in (i + 1)..Len(evs) : evs[j].type # "EndLink"

\* the regex proto!\((.*)\) on a destination: leftmost match, greedy capture
re_captures(dest) ==
    LET S == {i \in 1..Len(dest) :
                dest[i] = "proto!(" /\ \E j \in (i + 1)..Len(dest) : dest[j] = ")"}
    IN  IF S = {} THEN None
        ELSE LET i == CHOOSE x \in S : \A y \in S : x <= y
                 C == {j \in (i + 1)..Len(dest) : dest[j] = ")"}
                 j == CHOOSE x \in C : \A y \in C : y <= x
             IN  Some(SubSeq(dest, i + 1, j - 1))

\* format!("proto!({})", fqsl)
ProtoRef(s) == <<"proto!(">> \o s \o <<")">>

\* integer to decimal digits, as format!("{}", n) writes it
Digit(d) == <<"0", "1", "2", "3", "4", "5", "6", "7", "8", "9">>[d + 1]
RECURSIVE DecimalString(_)
DecimalString(n) ==
    IF n < 10 THEN <<Digit(n)>> ELSE DecimalString(n \div 10) \o <<Digit(n % 10)>>

\* the orders a HashMap can iterate a set of keys in
Orders(S) ==
    {o \in [1..Cardinality(S) -> S] : \A i, j \in 1..Cardinality(S) : i # j => o[i] # o[j]}

\* what SkimMatcherV2::fuzzy_match(..).unwrap_or(0) can give; scores of 0 and
\* below are all dropped by the filter, so they are modelled as 0
ScoreValues == {0, 1, 2}

RECURSIVE InsertByKey(_, _)
\* insert x behind every element whose distance is not greater
InsertByKey(sorted, x) ==
    IF Len(sorted) = 0 THEN <<x>>
    ELSE IF Head(sorted)[2] <= x[2] THEN <<Head(sorted)>> \o InsertByKey(Tail(sorted), x)
    ELSE <<x>> \o sorted

RECURSIVE sort_by_key(_)
\* Vec::sort_by_key(|(_, distance)| *distance): stable, ascending
sort_by_key(v) ==
    IF Len(v) = 0 THEN <<>>
    ELSE InsertByKey(sort_by_key(SubSeq(v, 1, Len(v) - 1)), v[Len(v)])

\* Iterator::rev
rev(v) == [i \in 1..Len(v) |-> v[Len(v) + 1 - i]]

\* Iterator::take
take(v, n) == SubSeq(v, 1, IF Len(v) < n THEN Len(v) ELSE n)

\* .rev().filter(distance > 0).take(3) that takes the first three unfiltered
suggestions_unfiltered(scored_links) ==
    LET top == take(rev(scored_links), 3)
    IN  [i \in 1..Len(top) |-> ProtoRef(top[i][1])]

\* .rev().filter(|(_, distance)| *distance > 0).take(3).map(proto!(fqsl))
suggestions_of(scored_links) ==
    LET top == take(SelectSeq(rev(scored_links), LAMBDA x : x[2] > 0), 3)
    IN  [i \in 1..Len(top) |-> ProtoRef(top[i][1])]

\* .map(proto!(fqsl)) without the take(3)
random_sample_untruncated(scored_links) ==
    [i \in 1..Len(scored_links) |-> ProtoRef(scored_links[i][1])]

\* .map(proto!(fqsl)).take(3)
random_sample_of(scored_links) ==
    LET first == take(scored_links, 3)
    IN  [i \in 1..Len(first) |-> ProtoRef(first[i][1])]

\* matches.iter().map(proto!(id)): the id in place of the canonical string
replacements_by_id(ms) == [n \in 1..Len(ms) |-> ProtoRef(id(ms[n]))]

\* matches.iter().map(|&s| format!("proto!({})", s.fqsl()))
replacements_of(ms) == [n \in 1..Len(ms) |-> ProtoRef(fqsl(ms[n]))]

HeadAmbiguous ==
    "More than one protobuf symbol matched your query. Replace your link with one of the following:"
\* the grave accents that quote the query are written as apostrophes here
HeadNoMatch == "No protobuf symbol matched your query '"
TailNearMatches == "', consider one of the following near matches:"
TailSample == "', or was similar. Sample of valid formats:"

ErrorOf(head, query, tail, lines) ==
    [head |-> head, query |-> query, tail |-> tail, lines |-> lines]

Texts == {<<"t">>}
FixedQueries == {<<"X">>, <<"b", "X">>, <<"Z">>}
OrdinaryDests == {<<"h">>}
\* a URL that holds a reference
EmbeddingDests == {<<"h", "proto!(", "X", ")">>}

\* the destinations a page's links can have
Dests(keys) ==
    {ProtoRef(q) : q \in FixedQueries \cup {fqsl(k) : k \in keys}}
    \cup OrdinaryDests \cup EmbeddingDests

\* the keys of the snapshot that match the query
MatchesOf(query) == {l \in links : matches(l, query)}

\* the text of a page is fixed when the rewrite is called, but until the parser
\* is exhausted only its events matter: the model draws the blank lines around
\* the text, for which the parser gives no event, when the text is written back
Paddings == {<<>>, <<"\n">>}

RECURSIVE cmark_from(_, _)
\* pulldown_cmark_to_cmark::cmark: the events written out as text, open being
\* the destination of the link that is open
cmark_from(evs, open) ==
    IF Len(evs) = 0 THEN <<>>
    ELSE LET e == Head(evs)
         IN  IF e.type = "StartLink" THEN <<"[">> \o cmark_from(Tail(evs), e.dest)
             ELSE IF e.type = "EndLink"
                  THEN <<"](">> \o open \o <<")">> \o cmark_from(Tail(evs), <<>>)
             ELSE IF e.type = "Text" THEN e.text \o cmark_from(Tail(evs), open)
             ELSE IF e.type = "InlineHtml"
                  THEN <<"<a href=\"">> \o e.html.href \o <<"\">">> \o e.html.label
                       \o <<"</a>">> \o cmark_from(Tail(evs), open)
             ELSE <<"#">> \o cmark_from(Tail(evs), open)

cmark(evs) == cmark_from(evs, <<>>)

\* the pipeline can rewrite one more page
CanBeginChapter == phase = "pages" /\ pages_done < MaxChapters

\* link_proto_symbols is called on a chapter
BeginChapter ==
    /\ CanBeginChapter
    /\ \E path \in {None, Some(<<"p">>)} :
          chapter' = [name |-> <<"c">>, path |-> path, content |-> None]
    /\ before' = [symbol_usages |-> symbol_usages, content |-> None]
    /\ phase' = "chapter"
    /\ events' = <<>>
    /\ links' = DOMAIN symbol_usages
    /\ chapter_link_id' = 1
    /\ current_link' = None
    /\ rendered' = <<>>
    /\ resolved' = NoResolution
    /\ UNCHANGED <<packages, symbol_usages, todo, pages_done, parsed, err, fqsl_arg,
                   fqsl_ret, call_vars, document>>

\* the parser can give one more event
CanParse == phase = "chapter" /\ parsed < MaxEvents


\* format!("{}{}", &usage_id, symbol_link.fqsl())
citation_id(usage_id, symbol_link) == DecimalString(usage_id) \o fqsl(symbol_link)

\* backlink() that takes a draft for a chapter with the empty path
backlink_drafts_too(ch, g, symbol_link, usage_id) ==
    LET i == citation_id(usage_id, symbol_link)
        l == ch.name \o <<"[">> \o DecimalString(usage_id) \o <<"]">>
        path == IF IsSome(ch.path) THEN Unwrap(ch.path) ELSE <<>>
    IN  [usages |-> entry_push(g, symbol_link, ContentBacklink(path, i, l)),
         link |-> set_own_id(symbol_link, i)]

\* the backlink with the own id set before the entry of the link is looked up
backlink_own_id_first(ch, g, symbol_link, usage_id) ==
    IF IsSome(ch.path)
    THEN LET i == citation_id(usage_id, symbol_link)
             l == ch.name \o <<"[">> \o DecimalString(usage_id) \o <<"]">>
             own == set_own_id(symbol_link, i)
         IN  [usages |-> entry_push(g, own, ContentBacklink(Unwrap(ch.path), i, l)),
              link |-> own]
    ELSE [usages |-> g, link |-> symbol_link]

\* the backlink of a reference: the graph and the link after it; a chapter
\* without a path is a draft and is not backlinked to
backlink(ch, g, symbol_link, usage_id) ==
    IF IsSome(ch.path)
    THEN LET i == citation_id(usage_id, symbol_link)
             l == ch.name \o <<"[">> \o DecimalString(usage_id) \o <<"]">>
         IN  [usages |-> entry_push(g, symbol_link, ContentBacklink(Unwrap(ch.path), i, l)),
              link |-> set_own_id(symbol_link, i)]
    ELSE [usages |-> g, link |-> symbol_link]

\* the first key of the iteration, when any key matches the query
matches_in_first_key(order, link_query) ==
    IF \A i \in 1..Len(order) : ~matches(order[i], link_query) THEN <<>>
    ELSE <<order[1]>>

\* links.iter().filter(|&s| s.matches(link_query)).collect(): the matches in
\* the order the keys are iterated in
matches_in(order, link_query) == SelectSeq(order, LAMBDA l : matches(l, link_query))

\* Start(Link) whose destination is a reference with exactly one match
ResolveReference ==
    /\ CanParse
    /\ ~InLink(events)
    /\ \E dest \in Dests(links) :
          /\ IsSome(re_captures(dest))
          /\ LET link_query == Unwrap(re_captures(dest))
                 found == MatchesOf(link_query)
             IN  /\ \E order \in Orders(links) :
                       LET ms == matches_in(order, link_query)
                       IN  /\ Len(ms) = 1
                           /\ LET symbol_link == ms[1]
                                  after == backlink(chapter, symbol_usages, symbol_link,
                                                    chapter_link_id)
                              IN  /\ symbol_usages' = after.usages
                                  /\ current_link' = Some(after.link)
                 /\ resolved' = [query |-> Some(link_query), matches |-> found,
                                 scored_links |-> <<>>, outcome |-> "linked"]
          /\ events' = Append(events, StartLinkEv(dest))
          /\ parsed' = parsed + 1
    /\ UNCHANGED <<packages, todo, phase, pages_done, chapter, links, chapter_link_id,
                   rendered, err, fqsl_arg, fqsl_ret, call_vars, document, before>>

\* Start(Link) whose destination is a reference that nothing matches
FailNoMatch ==
    /\ CanParse
    /\ ~InLink(events)
    /\ \E dest \in Dests(links) :
          /\ IsSome(re_captures(dest))
          /\ LET link_query == Unwrap(re_captures(dest))
             IN  /\ MatchesOf(link_query) = {}
                 /\ \E order \in Orders(links),
                       distance \in [{fqsl(l) : l \in links} -> ScoreValues] :
                       LET scored_links ==
                               sort_by_key([n \in 1..Len(order) |->
                                              <<fqsl(order[n]), distance[fqsl(order[n])]>>])
                           suggestions == suggestions_of(scored_links)
                       IN  /\ err' = Some(IF Len(suggestions) = 0
                                          THEN ErrorOf(HeadNoMatch, link_query, TailSample,
                                                       random_sample_of(scored_links))
                                          ELSE ErrorOf(HeadNoMatch, link_query,
                                                       TailNearMatches, suggestions))
                           /\ resolved' = [query |-> Some(link_query), matches |-> {},
                                           scored_links |-> scored_links,
                                           outcome |-> "no_match"]
          /\ events' = Append(events, StartLinkEv(dest))
          /\ parsed' = parsed + 1
    /\ phase' = "failed"
    /\ UNCHANGED <<packages, symbol_usages, todo, pages_done, chapter, links,
                   chapter_link_id, current_link, rendered, fqsl_arg, fqsl_ret, call_vars, document, before>>

\* Start(Link) whose destination is a reference that several keys match
FailAmbiguous ==
    /\ CanParse
    /\ ~InLink(events)
    /\ \E dest \in Dests(links) :
          /\ IsSome(re_captures(dest))
          /\ LET link_query == Unwrap(re_captures(dest))
                 found == MatchesOf(link_query)
             IN  /\ Cardinality(found) > 1
                 /\ \E order \in Orders(links) :
                       LET ms == SelectSeq(order, LAMBDA l : matches(l, link_query))
                           replacements == replacements_of(ms)
                       IN  err' = Some(ErrorOf(HeadAmbiguous, None, "", replacements))
                 /\ resolved' = [query |-> Some(link_query), matches |-> found,
                                 scored_links |-> <<>>, outcome |-> "ambiguous"]
          /\ events' = Append(events, StartLinkEv(dest))
          /\ parsed' = parsed + 1
    /\ phase' = "failed"
    /\ UNCHANGED <<packages, symbol_usages, todo, pages_done, chapter, links,
                   chapter_link_id, current_link, rendered, fqsl_arg, fqsl_ret, call_vars, document, before>>

\* Text inside a reference: it becomes the label, and is not emitted
LinkText ==
    /\ CanParse
    /\ IsSome(current_link)
    /\ \E t \in Texts :
          /\ current_link' = Some(set_label(Unwrap(current_link), t))
          /\ events' = Append(events, TextEv(t))
          /\ parsed' = parsed + 1
    /\ UNCHANGED <<packages, symbol_usages, todo, phase, pages_done, chapter, links,
                   chapter_link_id, rendered, resolved, err, fqsl_arg, fqsl_ret, call_vars, document, before>>

\* the anchor the symbol_link.html template renders for a link
render(link) == [href |-> href(link), label |-> label(link)]

\* End(Link) of a reference: the anchor is emitted in place of the link
LinkEnd ==
    /\ CanParse
    /\ IsSome(current_link)
    /\ InLink(events)
    /\ rendered' = Append(rendered, InlineHtmlEv(render(Unwrap(current_link))))
    /\ current_link' = None
    /\ chapter_link_id' = chapter_link_id + 1
    /\ events' = Append(events, EndLinkEv)
    /\ parsed' = parsed + 1
    /\ UNCHANGED <<packages, symbol_usages, todo, phase, pages_done, chapter, links,
                   resolved, err, fqsl_arg, fqsl_ret, call_vars, document, before>>

\* the events the parser can give where no reference is open
PlainEvents(evs) ==
    IF InLink(evs) THEN {EndLinkEv, OtherEv} \cup {TextEv(t) : t \in Texts}
    ELSE {OtherEv} \cup {TextEv(t) : t \in Texts}
         \cup {StartLinkEv(d) : d \in {x \in Dests(links) : re_captures(x) = None}}

\* every other event is emitted as it is
PassThrough ==
    /\ CanParse
    /\ \E e \in PlainEvents(events) :
          /\ ~(e.type = "Text" /\ IsSome(current_link))
          /\ ~(e.type = "EndLink" /\ IsSome(current_link))
          /\ rendered' = Append(rendered, e)
          /\ events' = Append(events, e)
          /\ parsed' = parsed + 1
    /\ UNCHANGED <<packages, symbol_usages, todo, phase, pages_done, chapter, links,
                   chapter_link_id, current_link, resolved, err, fqsl_arg, fqsl_ret, call_vars, document, before>>

\* the parser is exhausted: the chapter's content is replaced, Ok(())
FinishChapter ==
    /\ phase = "chapter"
    /\ ~InLink(events)
    /\ chapter' = [chapter EXCEPT !.content = Some(cmark(rendered))]
    /\ \E pad \in Paddings :
          before' = [before EXCEPT !.content = Some(pad \o cmark(events) \o pad)]
    /\ phase' = "pages"
    /\ pages_done' = pages_done + 1
    /\ UNCHANGED <<packages, symbol_usages, todo, parsed, events, links,
                   chapter_link_id, current_link, rendered, resolved, err, fqsl_arg,
                   fqsl_ret, call_vars, document>>

\* the entities mutate_symbols hands to the mutator: the messages and their
\* nested messages, the enums of the file, the services and their methods
mutate_symbols_visits(e) ==
    \/ e.kind = "message"
    \/ e.kind = "enum" /\ e.owner = "file"
    \/ e.kind = "service"
    \/ e.kind = "method"

\* assign_backlinks: every visited entity whose link is a key gets the list
assign_backlinks(doc, usages) ==
    [i \in 1..Len(doc) |->
        IF mutate_symbols_visits(doc[i]) /\ IsSome(get(usages, doc[i].self_link))
        THEN [doc[i] EXCEPT !.backlinks = Unwrap(get(usages, doc[i].self_link))]
        ELSE doc[i]]

\* the pages are all rewritten: the attachment pass can run
CanAssignBacklinks == phase = "pages"

AssignBacklinks ==
    /\ CanAssignBacklinks
    /\ document' = assign_backlinks(document, symbol_usages)
    /\ phase' = "attached"
    /\ UNCHANGED <<packages, symbol_usages, todo, pages_done, fqsl_arg, fqsl_ret, call_vars, before>>
    /\ UNCHANGED rewrite_vars

\* the book is written whether run returned Ok or Err
CanEmitBook_after_failure == phase \in {"attached", "failed"}

\* run returned Ok: the processed book is written to the host
CanEmitBook == phase = "attached"

EmitBook ==
    /\ CanEmitBook
    /\ phase' = "emitted"
    /\ UNCHANGED <<packages, symbol_usages, todo, pages_done, fqsl_arg, fqsl_ret, call_vars, document,
                   before>>
    /\ UNCHANGED rewrite_vars

Next ==
    \/ IndexService
    \/ IndexMethod
    \/ IndexMessage
    \/ IndexEnum
    \/ IndexField
    \/ IndexPanic
    \/ FinishIndexing
    \/ BeginChapter
    \/ ResolveReference
    \/ FailNoMatch
    \/ FailAmbiguous
    \/ LinkText
    \/ LinkEnd
    \/ PassThrough
    \/ FinishChapter
    \/ AssignBacklinks
    \/ EmitBook

Spec == Init /\ [][Next]_vars

---------------------------------------------------------------------------
(* Properties of the Cross-Reference Graph and of the Content Rewriter.    *)

\* the identity of a link: its path, symbol and property
SameIdentity(a, b) ==
    /\ a.path = b.path
    /\ a.symbol = b.symbol
    /\ a.property = b.property

\* the link the rewriter has open carries a label or an own id
Decorated(link) == IsSome(link.label_override) \/ IsSome(link.own_id)

\* C3: two Symbol Identities are equal exactly when their path, symbol and
\* property are equal: the link a reference resolved to, with the own id and
\* the label the rewriter has set on it, still equals the graph key it was
\* resolved to, and no other key.
C3_EqualityIgnoresDisplayFields ==
    IsSome(current_link) =>
        \A k \in DOMAIN symbol_usages :
            SymbolLinkEq(Unwrap(current_link), k) <=> SameIdentity(Unwrap(current_link), k)

\* what keeps the graph's lookups right all the same: no key of the graph ever
\* carries a label or an own id, and an open link has the identity of a key
KeysCarryNoDisplayFields ==
    /\ \A k \in DOMAIN symbol_usages : ~Decorated(k)
    /\ IsSome(current_link) =>
          \E k \in DOMAIN symbol_usages : SameIdentity(Unwrap(current_link), k)

\* the canonical string ends with the query on a segment boundary
EndsWithSegments(link, query) ==
    \/ fqsl(link) = query
    \/ str_ends_with(fqsl(link), <<".">> \o query)

\* the query of the last reference the rewriter met
LastQuery == Unwrap(resolved.query)

\* C4: the identities the rewriter takes as matching a reference's query are
\* exactly the known identities whose canonical string, cut at the dots, ends
\* with the query cut at the dots: whole segments, never a raw substring.
C4_MatchesOnWholeSegments ==
    IsSome(resolved.query) =>
        /\ resolved.matches = {l \in links : EndsWithSegments(l, LastQuery)}
        /\ \A l \in links : matches(l, LastQuery) <=> EndsWithSegments(l, LastQuery)

\* a query was matched by one identity and not by another whose canonical
\* string ends with the same characters
C4_Witness ==
    /\ IsSome(resolved.query)
    /\ resolved.matches # {}
    /\ \E l \in links :
          /\ l \notin resolved.matches
          /\ str_ends_with(fqsl(l), LastQuery)

\* the parser is inside a link whose destination is a reference
ReferenceOpen ==
    \E i \in 1..Len(events) :
        /\ events[i].type = "StartLink"
        /\ IsSome(re_captures(events[i].dest))
        /\ \A j \in (i + 1)..Len(events) : events[j].type # "EndLink"

\* C5: when exactly one known identity suffix-matches the query of a
\* reference, the rewrite does not fail on it and links it to that identity,
\* whatever longer dotted paths contain the query as a non-final part.
C5_UniqueMatchResolves ==
    (IsSome(resolved.query)
        /\ Cardinality({l \in links : EndsWithSegments(l, LastQuery)}) = 1) =>
        LET only == CHOOSE l \in links : EndsWithSegments(l, LastQuery)
        IN  /\ resolved.outcome = "linked"
            /\ err = None
            /\ phase # "failed"
            /\ resolved.matches = {only}
            /\ ReferenceOpen => /\ IsSome(current_link)
                                /\ SameIdentity(Unwrap(current_link), only)

\* a reference was linked to a parent while its nested child is known too
C5_Witness ==
    /\ resolved.outcome = "linked"
    /\ IsSome(current_link)
    /\ \E l \in links :
          /\ ~SameIdentity(l, Unwrap(current_link))
          /\ starts_with(fqsl(l), fqsl(Unwrap(current_link)) \o <<".">>)
          /\ LastQuery = Unwrap(current_link).symbol

\* the routing path of the page generated for a package:
\* format!("proto/{}", namespace_key.replace(".", "/"))
chapter_path(namespace_key) ==
    <<"p", "r", "o", "t", "o", "/">> \o replace(namespace_key, ".", "/")

\* the package an identity's path names
PackageOfLink(link) == replace(link.path, "/", ".")

\* <symbol> or <symbol>::<property>
PropertyQualifiedId(link) ==
    IF link.property = None THEN link.symbol
    ELSE link.symbol \o <<":", ":">> \o Unwrap(link.property)

\* the last event emitted is the anchor of the last reference resolved
AnchorEmitted ==
    /\ resolved.outcome = "linked"
    /\ current_link = None
    /\ Len(rendered) > 0
    /\ rendered[Len(rendered)].type = "InlineHtml"

\* C6: the anchor that replaces a resolved reference has the href
\* /<routing-path>.md#<property-qualified-id>, the routing path being that of
\* the page generated for the package of the identity the reference resolved to.
C6_AnchorHref ==
    AnchorEmitted =>
        \A k \in resolved.matches :
            rendered[Len(rendered)].html.href =
                <<"/">> \o chapter_path(PackageOfLink(k)) \o <<".", "m", "d", "#">>
                    \o PropertyQualifiedId(k)

\* an anchor was emitted for an identity that has a path and a property
C6_Witness ==
    /\ AnchorEmitted
    /\ \E k \in resolved.matches : IsSome(k.property) /\ Len(k.path) > 0

\* the lines of an error, as a set
LinesOf(e) == {e.lines[i] : i \in 1..Len(e.lines)}

\* C7: when two or more known identities suffix-match a reference's query,
\* the rewrite fails with the ambiguity error, which has one line
\* proto!(<canonical string>) for every matching identity and none for any other.
C7_AmbiguityListsAllMatches ==
    (IsSome(resolved.query)
        /\ Cardinality({l \in links : EndsWithSegments(l, LastQuery)}) >= 2) =>
        LET found == {l \in links : EndsWithSegments(l, LastQuery)}
        IN  /\ phase = "failed"
            /\ IsSome(err)
            /\ Unwrap(err).head = HeadAmbiguous
            /\ Len(Unwrap(err).lines) = Cardinality(found)
            /\ LinesOf(Unwrap(err)) = {<<"proto!(">> \o fqsl(l) \o <<")">> : l \in found}

\* the ambiguity error was raised where a known identity does not match
C7_Witness ==
    /\ resolved.outcome = "ambiguous"
    /\ IsSome(err)
    /\ Len(Unwrap(err).lines) = 2
    /\ \E l \in links : l \notin resolved.matches

\* C8: every replacement an ambiguity error offers is an unambiguous query:
\* the canonical string of a key of the graph, used as the query, matches
\* that key and no other, and a reference written with it resolves to it.
C8_ReplacementsAreUnambiguous ==
    /\ \A k \in DOMAIN symbol_usages :
          {l \in DOMAIN symbol_usages : matches(l, fqsl(k))} = {k}
    /\ (IsSome(err) /\ Unwrap(err).head = HeadAmbiguous) =>
          \A line \in LinesOf(Unwrap(err)) :
              /\ IsSome(re_captures(line))
              /\ Cardinality(MatchesOf(Unwrap(re_captures(line)))) = 1
    /\ \A k \in links :
          (resolved.query = Some(fqsl(k))) =>
              /\ resolved.outcome = "linked"
              /\ resolved.matches = {k}

\* a reference written with the canonical string of one of two identities
\* that a shorter query cannot tell apart was resolved to that identity
C8_Witness ==
    /\ resolved.outcome = "linked"
    /\ \E k1, k2 \in links :
          /\ k1 # k2
          /\ k1.symbol = k2.symbol
          /\ matches(k1, k1.symbol) /\ matches(k2, k1.symbol)
          /\ resolved.query = Some(fqsl(k1))
          /\ resolved.matches = {k1}

\* no known identity suffix-matches the query of the last reference
NothingMatches ==
    /\ IsSome(resolved.query)
    /\ {l \in links : EndsWithSegments(l, LastQuery)} = {}

\* the similarity scores the matcher gave: one for every known identity
Scored == {resolved.scored_links[i] : i \in 1..Len(resolved.scored_links)}
ScoredPositive == {x \in Scored : x[2] > 0}

\* the score of the identity an error line names
ScoreOfLine(line) ==
    LET x == CHOOSE y \in Scored : line = <<"proto!(">> \o y[1] \o <<")">>
    IN  x[2]

\* C9: when no known identity suffix-matches a reference's query and some
\* identity has a positive similarity score, the rewrite fails with the
\* near-matches error for that query, followed by at most 3 lines
\* proto!(<canonical string>): only identities with a positive score, in
\* descending score order, and no unlisted identity scores higher than a
\* listed one.
C9_NearMatchesAreTheTopThree ==
    (NothingMatches /\ ScoredPositive # {}) =>
        /\ phase = "failed"
        /\ IsSome(err)
        /\ LET e == Unwrap(err)
               n == Len(e.lines)
           IN  /\ e.head = HeadNoMatch
               /\ e.query = LastQuery
               /\ e.tail = TailNearMatches
               /\ n >= 1 /\ n <= 3
               /\ \A i \in 1..n :
                     /\ \E x \in ScoredPositive : e.lines[i] = <<"proto!(">> \o x[1] \o <<")">>
                     /\ ScoreOfLine(e.lines[i]) > 0
               /\ \A i, j \in 1..n :
                     i < j => ScoreOfLine(e.lines[i]) >= ScoreOfLine(e.lines[j])
               /\ \A x \in Scored :
                     (<<"proto!(">> \o x[1] \o <<")">>) \notin LinesOf(e) =>
                         \A i \in 1..n : x[2] <= ScoreOfLine(e.lines[i])

\* a query without a match was scored against four identities, all of them
\* with a positive score and not all the same: the fourth was left out
C9_Witness ==
    /\ NothingMatches
    /\ IsSome(err)
    /\ Cardinality(Scored) = 4
    /\ Cardinality(ScoredPositive) = 4
    /\ Len(Unwrap(err).lines) = 3
    /\ \E x, y \in ScoredPositive : x[2] < y[2]

\* C10: when no known identity suffix-matches a reference's query and no
\* identity has a positive similarity score, the rewrite fails with the
\* sample error for that query, followed by min(3, number of known
\* identities) lines proto!(<canonical string>), each naming a known identity.
C10_SampleOfKnownIdentities ==
    (NothingMatches /\ ScoredPositive = {}) =>
        /\ phase = "failed"
        /\ IsSome(err)
        /\ LET e == Unwrap(err)
               n == Cardinality(links)
           IN  /\ e.head = HeadNoMatch
               /\ e.query = LastQuery
               /\ e.tail = TailSample
               /\ Len(e.lines) = (IF n < 3 THEN n ELSE 3)
               /\ LinesOf(e) \subseteq {<<"proto!(">> \o fqsl(l) \o <<")">> : l \in links}

\* a query without a match or a near match, against four known identities
C10_Witness ==
    /\ NothingMatches
    /\ ScoredPositive = {}
    /\ Cardinality(links) = 4
    /\ IsSome(err)
    /\ Len(Unwrap(err).lines) = 3

---------------------------------------------------------------------------
(* Properties of a whole page rewrite.                                     *)

\* link_proto_symbols has been called on the chapter
Called == chapter # NoChapter

\* the rewrite of the chapter has returned Ok(())
PageFinished == IsSome(chapter.content)

\* the destination holds the text proto!( and, further on, a closing parenthesis
HoldsReference(dest) ==
    \E i, j \in 1..Len(dest) : i < j /\ dest[i] = "proto!(" /\ dest[j] = ")"

\* the destination is proto!(<query>), the query without a parenthesis
IsReferenceSyntax(dest) ==
    /\ Len(dest) >= 2
    /\ dest[1] = "proto!("
    /\ dest[Len(dest)] = ")"
    /\ \A i \in 2..(Len(dest) - 1) : dest[i] \notin {"proto!(", "(", ")"}

\* the links of the page, and those the rewriter emitted as they were
LinksIn(evs) == SelectSeq(evs, LAMBDA e : e.type = "StartLink")
AnchorsIn(evs) == SelectSeq(evs, LAMBDA e : e.type = "InlineHtml")

\* the page has no embedded reference: no link of the reference syntax
NoReferenceInPage == \A i \in 1..Len(events) :
    events[i].type = "StartLink" => ~IsReferenceSyntax(events[i].dest)

\* the rewriter takes no link of the page for a reference
NothingRecognised == \A i \in 1..Len(events) :
    events[i].type = "StartLink" => ~HoldsReference(events[i].dest)

\* C11: a page without an embedded reference is rewritten with success to a
\* text byte-identical to its input, and the graph is left unchanged.
C11_PassthroughByteIdentical ==
    (Called /\ NoReferenceInPage) =>
        /\ phase # "failed"
        /\ symbol_usages = before.symbol_usages
        /\ PageFinished => chapter.content = before.content

\* what the rewriter does keep: a page of which it takes no link for a
\* reference is rewritten with success, every event of it is emitted unchanged
\* and in order, the text written back is the serialisation of these events,
\* which is the input without the blank lines around it, and the graph is
\* left unchanged.
PassthroughOfEvents ==
    (Called /\ NothingRecognised) =>
        /\ phase # "failed"
        /\ err = None
        /\ rendered = events
        /\ symbol_usages = before.symbol_usages
        /\ PageFinished =>
              /\ chapter.content = Some(cmark(events))
              /\ \E pad \in Paddings :
                    before.content = Some(pad \o Unwrap(chapter.content) \o pad)

\* a page of an ordinary link with its text was rewritten against a graph
\* that has keys, and its input had blank lines around it
PassthroughReached ==
    /\ PageFinished
    /\ NothingRecognised
    /\ Len(events) = 3
    /\ events[1].type = "StartLink"
    /\ events[2].type = "Text"
    /\ DOMAIN symbol_usages # {}
    /\ before.content # chapter.content

\* C12: a link is treated as an embedded reference, and so not emitted as a
\* link, exactly when its destination is proto!(<query>) with a query that
\* has no parenthesis; every other link is left as an ordinary link.
C12_ReferenceSyntaxIsExact ==
    Called =>
        LinksIn(rendered) =
            SelectSeq(LinksIn(events), LAMBDA e : ~IsReferenceSyntax(e.dest))

\* the links of the page the rewriter takes for references, in document order
References == SelectSeq(events, LAMBDA e : e.type = "StartLink" /\ IsSome(re_captures(e.dest)))

\* the known identities that suffix-match the query of a reference
Candidates(ref) == {l \in links : EndsWithSegments(l, Unwrap(re_captures(ref.dest)))}

\* the references of the page that were resolved: all of them, but for the
\* last one when the rewrite failed on it
NumResolved == IF phase = "failed" THEN Len(References) - 1 ELSE Len(References)

\* the identity the k-th reference of the page was resolved to
Target(k) == CHOOSE l \in links : l \in Candidates(References[k])

\* what the rewriter does keep: with every link it takes for a reference
\* counted as one, the rewrite either replaces them all and returns Ok, or
\* fails on the first that is unresolved or ambiguous, with the error of that
\* one, and no later one is looked at.
AllRecognisedOrFirstError ==
    /\ phase # "failed" => err = None
    /\ Called =>
          \A k \in 1..NumResolved : Cardinality(Candidates(References[k])) = 1
    /\ phase = "failed" =>
          /\ IsSome(err)
          /\ Len(References) >= 1
          /\ events[Len(events)] = References[Len(References)]
          /\ LET last == References[Len(References)]
                 n == Cardinality(Candidates(last))
             IN  /\ n # 1
                 /\ n = 0 => /\ Unwrap(err).head = HeadNoMatch
                             /\ Unwrap(err).query = Unwrap(re_captures(last.dest))
                 /\ n > 1 => /\ Unwrap(err).head = HeadAmbiguous
                             /\ LinesOf(Unwrap(err)) =
                                  {<<"proto!(">> \o fqsl(l) \o <<")">> : l \in Candidates(last)}
    /\ PageFinished =>
          /\ Len(AnchorsIn(rendered)) = Len(References)
          /\ \A i \in 1..Len(rendered) :
                rendered[i].type = "StartLink" => re_captures(rendered[i].dest) = None

\* the rewrite failed on the second reference of a page, the first resolved
SecondRecognisedFails ==
    /\ phase = "failed"
    /\ Len(References) = 2
    /\ Len(AnchorsIn(rendered)) = 1

\* the Content backlinks the rewrite of the page has appended to a key's list
Appended(k) ==
    LET old == IF k \in DOMAIN before.symbol_usages
               THEN Len(before.symbol_usages[k]) ELSE 0
    IN  SubSeq(symbol_usages[k], old + 1, Len(symbol_usages[k]))

\* the counters of the resolved references of the page whose target is k
CountersOf(k) ==
    SelectSeq([i \in 1..NumResolved |-> i], LAMBDA i : Target(i) = k)

\* all citation ids the rewrite of the page has appended
AppendedIds ==
    UNION {{Appended(k)[i].id : i \in 1..Len(Appended(k))} : k \in DOMAIN symbol_usages}

\* what the rewriter does keep: with every link it takes for a reference
\* counted as one, the counter is 1 more than the number of them closed so far
\* in this page, whatever was rewritten before; the k-th gets the id made of k
\* and the canonical string of the identity it resolved to; no two of a page
\* share an id.
CountersFollowRecognised ==
    Called =>
        /\ chapter_link_id = 1 + Len(AnchorsIn(rendered))
        /\ IsSome(chapter.path) =>
              /\ \A k \in DOMAIN symbol_usages :
                    [i \in 1..Len(Appended(k)) |-> Appended(k)[i].id] =
                        [i \in 1..Len(CountersOf(k)) |->
                            DecimalString(CountersOf(k)[i]) \o fqsl(k)]
              /\ Cardinality(AppendedIds) = NumResolved
              /\ IsSome(current_link) =>
                    Unwrap(current_link).own_id =
                        Some(DecimalString(NumResolved) \o fqsl(Target(NumResolved)))

\* the first reference of a second page got counter 1, as the first reference
\* of the page before it did
CounterRestarts ==
    /\ pages_done = 1
    /\ phase = "chapter"
    /\ IsSome(chapter.path)
    /\ NumResolved = 1
    /\ IsSome(current_link)
    /\ \E k \in DOMAIN before.symbol_usages :
          \E i \in 1..Len(before.symbol_usages[k]) :
              /\ before.symbol_usages[k][i].kind = "Content"
              /\ before.symbol_usages[k][i].id = <<"1">> \o fqsl(k)
    /\ Unwrap(current_link).own_id = Some(<<"1">> \o fqsl(Target(1)))

\* the second reference of a page to one identity got counter 2
SecondReferenceOfOneIdentity ==
    /\ NumResolved = 2
    /\ Target(1) = Target(2)
    /\ IsSome(chapter.path)

\* the embedded references of the page, in document order: the links of the
\* reference syntax
SyntaxReferences ==
    SelectSeq(events, LAMBDA e : e.type = "StartLink" /\ IsReferenceSyntax(e.dest))

\* the query of an embedded reference, and the known identities matching it
QueryOf(ref) == SubSeq(ref.dest, 2, Len(ref.dest) - 1)
Matching(ref) == {l \in links : EndsWithSegments(l, QueryOf(ref))}

\* the embedded references that are unresolved or ambiguous
Unresolvable == SelectSeq(SyntaxReferences, LAMBDA r : Cardinality(Matching(r)) # 1)

\* C13: the rewrite either replaces every embedded reference of the page by
\* a resolved link and returns Ok, or returns an error: it fails when a
\* reference of the page is unresolved or ambiguous, and the error is the one
\* of the first such reference in document order.
C13_AllReferencesOrFirstError ==
    Called =>
        /\ PageFinished =>
              /\ Unresolvable = <<>>
              /\ \A i \in 1..Len(rendered) :
                    rendered[i].type = "StartLink" => ~IsReferenceSyntax(rendered[i].dest)
        /\ phase = "failed" =>
              /\ IsSome(err)
              /\ Unresolvable # <<>>
              /\ LET first == Unresolvable[1]
                 IN  IF Matching(first) = {}
                     THEN /\ Unwrap(err).head = HeadNoMatch
                          /\ Unwrap(err).query = QueryOf(first)
                     ELSE /\ Unwrap(err).head = HeadAmbiguous
                          /\ LinesOf(Unwrap(err)) =
                               {<<"proto!(">> \o fqsl(l) \o <<")">> : l \in Matching(first)}

\* the link the parser is inside of
OpenLink ==
    LET I == {i \in 1..Len(events) : events[i].type = "StartLink"}
    IN  events[CHOOSE i \in I : \A j \in I : j <= i]

\* C14: citation ids are page-scoped and sequential: the k-th embedded
\* reference of the page, ordinary links not counted, gets counter k from 1
\* on, whatever pages were rewritten before, and its citation id is the
\* counter followed by the canonical string of the identity it resolved to.
C14_CitationIdsArePageScoped ==
    (Called /\ IsSome(chapter.path) /\ IsSome(current_link)
        /\ IsReferenceSyntax(OpenLink.dest)) =>
        Unwrap(current_link).own_id =
            Some(DecimalString(Len(SyntaxReferences)) \o fqsl(Unwrap(current_link)))

\* C15: draft pages are never back-linked: the rewrite of a page without a
\* routing path leaves the graph exactly as it was and sets no own id, while
\* the references of the page are resolved and replaced by anchors.
C15_DraftsAreNotBacklinked ==
    (Called /\ chapter.path = None) =>
        /\ symbol_usages = before.symbol_usages
        /\ IsSome(current_link) => Unwrap(current_link).own_id = None
        /\ Len(AnchorsIn(rendered)) + (IF IsSome(current_link) THEN 1 ELSE 0) = NumResolved
        /\ PageFinished => Len(AnchorsIn(rendered)) = Len(References)

\* a draft page with a reference was rewritten against a graph with keys: the
\* anchor is there
C15_Witness ==
    /\ PageFinished
    /\ chapter.path = None
    /\ Len(References) >= 1
    /\ Len(AnchorsIn(rendered)) = Len(References)
    /\ DOMAIN symbol_usages # {}

\* C16: on a page with a routing path every resolved reference appends one
\* Content backlink to the end of its target's list, with the page's path,
\* the citation id and the label <page title>[<counter>]; no other list and
\* no key changes.
C16_OneContentBacklinkPerReference ==
    (Called /\ IsSome(chapter.path)) =>
        /\ DOMAIN symbol_usages = DOMAIN before.symbol_usages
        /\ \A k \in DOMAIN symbol_usages :
              symbol_usages[k] =
                  before.symbol_usages[k]
                  \o [i \in 1..Len(CountersOf(k)) |->
                        [kind |-> "Content",
                         path |-> Unwrap(chapter.path),
                         id |-> DecimalString(CountersOf(k)[i]) \o fqsl(k),
                         label |-> chapter.name \o <<"[">>
                                     \o DecimalString(CountersOf(k)[i]) \o <<"]">>]]

\* a reference was resolved to an identity whose list held a backlink already,
\* next to an identity that was not referred to
C16_Witness ==
    /\ Called
    /\ IsSome(chapter.path)
    /\ NumResolved >= 1
    /\ Len(before.symbol_usages[Target(1)]) >= 1
    /\ Len(symbol_usages[Target(1)]) = Len(before.symbol_usages[Target(1)]) + 1
    /\ \E k \in DOMAIN symbol_usages : k # Target(1) /\ symbol_usages[k] # <<>>

\* the list the graph holds for an identity, empty when it is not a key
ListOf(g, k) == IF k \in DOMAIN g THEN g[k] ELSE <<>>

\* the last entity of a kind that was added to the document
LastEntity(kind) ==
    LET I == {i \in 1..Len(document) : document[i].kind = kind}
    IN  document[CHOOSE i \in I : \A j \in I : j <= i]

\* the indexer is at a declaration of this kind
IndexerAt(op) == phase = "index" /\ todo # <<>> /\ Head(todo).op = op

\* C17: during indexing every field whose type is a message or an enum
\* pushes one Symbol backlink onto the list of the identity its type name
\* resolves to, the source being the owning message's identity with the field
\* name as property; a field of primitive type pushes nothing; a field of a
\* oneof group is treated like any other.
C17_FieldPushesOneBacklink ==
    [][IndexerAt("field") =>
          LET d == Head(todo)
              owner == LastEntity("message").self_link
              source == [symbol |-> owner.symbol, path |-> owner.path,
                         property |-> Some(d.name), label_override |-> None,
                         own_id |-> None]
          IN  IF d.typ = None THEN symbol_usages' = symbol_usages
              ELSE LET target == from_fqsl(Unwrap(d.typ), packages)
                   IN  /\ DOMAIN symbol_usages' = DOMAIN symbol_usages \cup {target}
                       /\ \A k \in DOMAIN symbol_usages' :
                             symbol_usages'[k] =
                                 IF k = target
                                 THEN ListOf(symbol_usages, k)
                                      \o <<[kind |-> "Symbol", link |-> source]>>
                                 ELSE symbol_usages[k]]_vars

\* the fields of message X were indexed, one of an enum type and one of the
\* nested enum type inside a oneof group: each list holds its one backlink
C17_Witness ==
    /\ phase = "pages"
    /\ \E k1, k2 \in DOMAIN symbol_usages :
          /\ k1 # k2
          /\ Len(symbol_usages[k1]) = 1 /\ Len(symbol_usages[k2]) = 1
          /\ symbol_usages[k1][1].kind = "Symbol"
          /\ symbol_usages[k1][1].link.property = Some(name_f)
          /\ symbol_usages[k2][1].kind = "Symbol"
          /\ symbol_usages[k2][1].link.property = Some(name_g)
          /\ symbol_usages[k1][1].link.symbol = sym_X

\* C18: during indexing the identity of a method is the identity of its
\* service with the method name as property, and a Symbol backlink from it is
\* pushed onto the list of the request type and onto the list of the
\* response type: twice onto one list when the two are the same identity.
C18_MethodPushesTwoBacklinks ==
    [][(IndexerAt("method") /\ phase' = "index") =>
          LET d == Head(todo)
              service == LastEntity("service").self_link
              method == [symbol |-> service.symbol, path |-> service.path,
                         property |-> Some(d.name), label_override |-> None,
                         own_id |-> None]
              request == from_fqsl(Unwrap(d.input_type), packages)
              response == from_fqsl(Unwrap(d.output_type), packages)
              usage == <<[kind |-> "Symbol", link |-> method]>>
          IN  /\ document'[Len(document')].self_link = method
              /\ DOMAIN symbol_usages' = DOMAIN symbol_usages \cup {method, request, response}
              /\ \A k \in DOMAIN symbol_usages' :
                    symbol_usages'[k] =
                        ListOf(symbol_usages, k)
                        \o (IF k = request THEN usage ELSE <<>>)
                        \o (IF k = response THEN usage ELSE <<>>)]_vars

\* a method that takes and returns one message type was indexed: the list of
\* the type holds the method twice
C18_Witness ==
    /\ phase = "pages"
    /\ \E k \in DOMAIN symbol_usages :
          /\ Len(symbol_usages[k]) = 2
          /\ symbol_usages[k][1] = symbol_usages[k][2]
          /\ symbol_usages[k][1].kind = "Symbol"
          /\ symbol_usages[k][1].link.property = Some(name_m)
          /\ symbol_usages[k][1].link \in DOMAIN symbol_usages

\* the attachment pass has run
Attached == phase \in {"attached", "emitted"}

\* C19: after the attachment pass every message, nested or not, every enum,
\* of a file or of a message, every service and every method whose identity
\* is a key of the graph carries exactly the list the graph holds for it, and
\* every other entity carries an empty list.
C19_EveryEntityGetsItsBacklinks ==
    Attached =>
        \A i \in 1..Len(document) :
            document[i].backlinks =
                IF IsSome(get(symbol_usages, document[i].self_link))
                THEN Unwrap(get(symbol_usages, document[i].self_link))
                ELSE <<>>

\* no page is being rewritten
NoPageOpen == chapter = NoChapter \/ PageFinished

---------------------------------------------------------------------------
(* Properties of the indexing phase and of the graph across the run        *)

\* C21: after the indexing phase the identity of every declared message,
\* nested or not, of every enum, service and method is a key of the graph,
\* also when nothing refers to it, so that a reference to it can resolve.
C21_EveryEntityIsAKey ==
    phase # "index" =>
        \A i \in 1..Len(document) : document[i].self_link \in DOMAIN symbol_usages

\* the indexer is at the declaration of an entity
AtDeclaration ==
    /\ phase = "index"
    /\ todo # <<>>
    /\ Head(todo).op \in {"message", "enum", "service", "method"}

\* the name of the declaration qualified by its enclosing messages, and the
\* member name it carries
QualifiedName(d) ==
    IF d.op = "message" THEN join(d.message_path, <<".">>)
    ELSE IF d.op = "enum" THEN join(Append(d.namespace, d.name), <<".">>)
    ELSE IF d.op = "service" THEN d.name
    ELSE d.service

MemberName(d) == IF d.op = "method" THEN Some(d.name) ELSE None

\* C22: the identity the indexer builds for an entity declared in a file of
\* package P has the path P with every '.' replaced by '/', and as symbol the
\* name of the entity qualified by its enclosing messages, whatever other
\* packages are known.
C22_PathIsOwningPackage ==
    [][(AtDeclaration /\ Len(document') = Len(document) + 1) =>
          LET d == Head(todo)
              self_link == document'[Len(document')].self_link
          IN  /\ self_link.path = replace(d.package, ".", "/")
              /\ self_link.symbol = QualifiedName(d)
              /\ self_link.property = MemberName(d)]_vars

\* a step of the Content Rewriter: a page is begun, parsed or finished
RewriterStep == phase \in {"pages", "chapter"} /\ phase' \in {"chapter", "pages", "failed"}

\* C23: the Content Rewriter never changes the key set of the graph and
\* never mutates a key or an entity: over every step of it the keys and the
\* document stay as they are, the candidates of a page are the keys, and the
\* label and the own id are only ever set on the link taken out of them.
C23_RewriterKeepsKeys ==
    /\ [][RewriterStep => /\ DOMAIN symbol_usages' = DOMAIN symbol_usages
                          /\ document' = document]_vars
    /\ [](Called => links = DOMAIN symbol_usages)
    /\ [](\A k \in DOMAIN symbol_usages :
             k.label_override = None /\ k.own_id = None)

\* the second page of a run has a resolved reference with its own id set,
\* after the first page appended a backlink
C23_Witness ==
    /\ pages_done = 1
    /\ phase = "chapter"
    /\ IsSome(current_link)
    /\ IsSome(Unwrap(current_link).own_id)
    /\ \E k \in DOMAIN before.symbol_usages :
          \E i \in 1..Len(before.symbol_usages[k]) :
              before.symbol_usages[k][i].kind = "Content"

\* one list is the beginning of another
IsPrefix(xs, ys) == Len(xs) <= Len(ys) /\ SubSeq(ys, 1, Len(xs)) = xs

\* C24: the graph grows monotonically: it starts empty, and over every step
\* of the run no key is removed and the list of every key before the step is
\* a prefix of its list after the step.
C24_GraphGrowsMonotonically ==
    /\ symbol_usages = EmptyGraph
    /\ [][\A k \in DOMAIN symbol_usages :
             /\ k \in DOMAIN symbol_usages'
             /\ IsPrefix(symbol_usages[k], symbol_usages'[k])]_vars

\* a list that grew in both phases: an edge of the indexer, then a backlink
\* of a page
C24_Witness ==
    \E k \in DOMAIN symbol_usages :
        /\ Len(symbol_usages[k]) >= 2
        /\ symbol_usages[k][1].kind = "Symbol"
        /\ symbol_usages[k][Len(symbol_usages[k])].kind = "Content"

\* the attachment pass starts from a run whose indexing and page rewrites are
\* over, it leaves the graph as it is, and nothing writes the graph or the
\* document after it
AttachmentIsLastWriter ==
    /\ [][phase' = "attached" =>
             /\ phase = "pages"
             /\ todo = <<>>
             /\ NoPageOpen
             /\ symbol_usages' = symbol_usages]_vars
    /\ [][Attached => symbol_usages' = symbol_usages /\ document' = document]_vars

\* C25: the attachment pass runs strictly after the indexing phase and after
\* every page rewrite, it only reads the graph and no write to the graph
\* happens after it, so that in every run each entity is annotated with the
\* complete list of its identity.
C25_AttachmentSeesCompleteGraph ==
    /\ AttachmentIsLastWriter
    /\ [](Attached =>
             \A i \in 1..Len(document) :
                 document[i].backlinks = ListOf(symbol_usages, document[i].self_link))

\* what the attachment pass does keep: every entity it visits is annotated
\* with the complete list
VisitedSeeCompleteGraph ==
    /\ AttachmentIsLastWriter
    /\ [](Attached =>
             \A i \in 1..Len(document) :
                 mutate_symbols_visits(document[i]) =>
                     document[i].backlinks =
                         ListOf(symbol_usages, document[i].self_link))

\* the attachment pass ran after a page had appended a backlink, and an entity
\* carries it
AttachedAfterRewrite ==
    /\ Attached
    /\ pages_done >= 1
    /\ \E i \in 1..Len(document) :
          \E j \in 1..Len(document[i].backlinks) :
              document[i].backlinks[j].kind = "Content"

\* the declaration has a field of message or enum type, or a request or
\* response type, whose type name is absent
Malformed(d) ==
    \/ d.op = "message" /\ \E i \in 1..Len(d.field_types) : d.field_types[i] = Some(<<>>)
    \/ d.op = "method" /\ (d.input_type = None \/ d.output_type = None)

---------------------------------------------------------------------------
(* Source::from_location (view.rs): one call on one Location::span.        *)

\* the numbers of a span and its length, as far as the calls are enumerated
MaxLine == 2
MaxSpanLen == 5

\* i32::MAX
I32Max == 2147483647

\* Vec<i32> of Location::span
RECURSIVE SpansOfLen(_)
SpansOfLen(n) ==
    IF n = 0 THEN {<<>>}
    ELSE {Append(sp, v) : sp \in SpansOfLen(n - 1), v \in 0..MaxLine}

Spans == UNION {SpansOfLen(n) : n \in 0..MaxSpanLen}

\* the Source a call returns, and the panic
Source(start_line, start_column, end_line, end_column) ==
    [kind |-> "Source", start_line |-> start_line, start_column |-> start_column,
     end_line |-> end_line, end_column |-> end_column]

Panicked == [kind |-> "panic"]

\* x += 1 on an i32 in a build without overflow checks
wrapping_inc(x) == IF x = I32Max THEN -I32Max - 1 ELSE x + 1

\* from_location with the third number of a span of three taken as end line
from_location_three_as_lines(span) ==
    IF Len(span) = 4
    THEN {Source(wrapping_inc(span[1]), span[2], wrapping_inc(span[3]), span[4])}
    ELSE IF Len(span) = 3
    THEN {Source(wrapping_inc(span[1]), span[2], wrapping_inc(span[3]), span[3])}
    ELSE {Panicked}

\* the outcomes of Source::from_location: the match on the slice, then the
\* two increments, which on overflow panic or wrap as the build has it
from_location(span) ==
    LET matched ==
            IF Len(span) = 4 THEN Source(span[1], span[2], span[3], span[4])
            ELSE IF Len(span) = 3 THEN Source(span[1], span[2], span[1], span[3])
            ELSE Panicked
    IN  IF matched = Panicked THEN {Panicked}
        ELSE LET incremented ==
                     [matched EXCEPT !.start_line = wrapping_inc(@),
                                     !.end_line = wrapping_inc(@)]
             IN  IF matched.start_line = I32Max \/ matched.end_line = I32Max
                 THEN {Panicked, incremented}
                 ELSE {incremented}

InitSource ==
    /\ location \in Spans
    /\ src = None
    /\ book = <<>>
    /\ nest_under = None
    /\ file_packages = <<>>
    /\ processed_book = None
    /\ packages = {}
    /\ symbol_usages = EmptyGraph
    /\ todo = <<>>
    /\ phase = "index"
    /\ pages_done = 0
    /\ document = <<>>
    /\ before = NoBefore
    /\ IdleRewriter
    /\ fqsl_arg = <<>>
    /\ fqsl_ret = None

\* one call of Source::from_location(&location, file_path)
CallFromLocation ==
    /\ src = None
    /\ \E outcome \in from_location(location) : src' = Some(outcome)
    /\ UNCHANGED <<packages, symbol_usages, todo, phase, pages_done, fqsl_arg, fqsl_ret,
                   document, before, location, book, nest_under, file_packages,
                   processed_book>>
    /\ UNCHANGED rewrite_vars

NextSource == CallFromLocation

SpecSource == InitSource /\ [][NextSource]_vars

\* C27: Source::from_location takes a span of four numbers as start line,
\* start column, end line, end column, and a span of three numbers as start
\* line, start column, end column, the end line being the start line; it adds
\* one to both lines; a span of any other length is a fatal error.
C27_SpanOfThreeOrFour ==
    IsSome(src) =>
        LET outcome == Unwrap(src)
        IN  IF Len(location) = 4
            THEN outcome = [kind |-> "Source",
                            start_line |-> location[1] + 1,
                            start_column |-> location[2],
                            end_line |-> location[3] + 1,
                            end_column |-> location[4]]
            ELSE IF Len(location) = 3
            THEN outcome = [kind |-> "Source",
                            start_line |-> location[1] + 1,
                            start_column |-> location[2],
                            end_line |-> location[1] + 1,
                            end_column |-> location[3]]
            ELSE outcome = [kind |-> "panic"]

\* a span of three numbers on line 0 whose end column is not its line
C27_Witness ==
    /\ IsSome(src)
    /\ Len(location) = 3
    /\ location[1] = 0
    /\ location[3] = 2
    /\ Unwrap(src).kind = "Source"
    /\ Unwrap(src).end_line = 1

---------------------------------------------------------------------------
(* The outcome of a page rewrite as a function of the page and the graph   *)

\* the one known identity that suffix-matches the reference, if there is one
OnlyCandidate(ref) ==
    IF Cardinality(Candidates(ref)) = 1
    THEN Some(CHOOSE l \in links : l \in Candidates(ref))
    ELSE None

RECURSIVE RewrittenFrom(_, _, _)
\* the events the rewrite of a page emits for the events of the page: open is
\* the identity of the open reference with the label it has so far
RewrittenFrom(evs, open, out) ==
    IF evs = <<>> THEN out
    ELSE LET e == Head(evs)
         IN  IF e.type = "StartLink" /\ IsSome(re_captures(e.dest))
             THEN RewrittenFrom(Tail(evs), OnlyCandidate(e), out)
             ELSE IF e.type = "Text" /\ IsSome(open)
             THEN RewrittenFrom(Tail(evs), Some(set_label(Unwrap(open), e.text)), out)
             ELSE IF e.type = "EndLink" /\ IsSome(open)
             THEN RewrittenFrom(Tail(evs), None,
                      Append(out, [type |-> "InlineHtml",
                                   html |-> [href |-> href(Unwrap(open)),
                                             label |-> label(Unwrap(open))]]))
             ELSE RewrittenFrom(Tail(evs), open, Append(out, e))

\* the graph after the references of the page resolved so far
GraphFrom(g) ==
    IF chapter.path = None THEN g
    ELSE [k \in DOMAIN g |->
            g[k] \o [i \in 1..Len(CountersOf(k)) |->
                       [kind |-> "Content",
                        path |-> Unwrap(chapter.path),
                        id |-> DecimalString(CountersOf(k)[i]) \o fqsl(k),
                        label |-> chapter.name \o <<"[">>
                                    \o DecimalString(CountersOf(k)[i]) \o <<"]">>]]]

\* every link the rewriter takes for a reference has exactly one suffix match
AllUnique == \A k \in 1..Len(References) : Cardinality(Candidates(References[k])) = 1

\* C28: the successful path is deterministic: the events emitted for a page,
\* the text written back and the Content backlinks added to the graph are a
\* function of the page and of the graph at call time, whatever order the
\* keys are iterated in; when every reference has exactly one suffix match
\* the rewrite does not fail. Only the lines of an error depend on the order.
C28_SuccessIsDeterministic ==
    Called =>
        /\ rendered = RewrittenFrom(events, None, <<>>)
        /\ symbol_usages = GraphFrom(before.symbol_usages)
        /\ AllUnique => phase # "failed" /\ err = None
        /\ PageFinished =>
              chapter.content = Some(cmark(RewrittenFrom(events, None, <<>>)))

\* a page with a reference was rewritten against a graph of several keys,
\* which can be iterated in more than one order
C28_Witness ==
    /\ PageFinished
    /\ IsSome(chapter.path)
    /\ Cardinality(links) >= 3
    /\ AllUnique
    /\ Len(References) >= 1
    /\ Len(AnchorsIn(rendered)) = Len(References)

\* the position of the Start(Link) the parser is inside of
OpenAt ==
    LET I == {i \in 1..Len(events) : events[i].type = "StartLink"}
    IN  CHOOSE i \in I : \A j \in I : j <= i

\* the Text events inside the open link, and their texts put together
TextsInside ==
    SelectSeq(SubSeq(events, OpenAt + 1, Len(events)), LAMBDA e : e.type = "Text")

InnerText == FlattenSeq([i \in 1..Len(TextsInside) |-> TextsInside[i].text])

\* the last dot-separated segment of the canonical string
LastSegment(link) ==
    LET parts == split(fqsl(link), ".")
    IN  parts[Len(parts)]

\* the event lies inside an embedded reference
InsideReference(i) ==
    \E j \in 1..(i - 1) :
        /\ events[j].type = "StartLink"
        /\ IsReferenceSyntax(events[j].dest)
        /\ \A m \in (j + 1)..(i - 1) : events[m].type # "EndLink"

\* the Text events of the page outside every embedded reference
TextsOutside ==
    LET I == {i \in 1..Len(events) : events[i].type = "Text" /\ ~InsideReference(i)}
    IN  SelectSeq([i \in 1..Len(events) |-> IF i \in I THEN events[i] ELSE OtherEv],
                  LAMBDA e : e.type = "Text")

\* C29: the label of the anchor that replaces a reference is the inner text
\* of the link, and the last dot-separated segment of the canonical string
\* when the link has no text; text outside every embedded reference is
\* emitted unchanged and never taken for a label.
C29_LabelIsInnerText ==
    Called =>
        /\ IsSome(current_link) =>
              label(Unwrap(current_link)) =
                  IF InnerText = <<>> THEN LastSegment(Unwrap(current_link))
                  ELSE InnerText
        /\ phase # "failed" =>
              SelectSeq(rendered, LAMBDA e : e.type = "Text") = TextsOutside

\* what the rewriter does keep: the label is the text of the last Text event
\* inside the link, the last segment of the canonical string when there is
\* none, and the text outside the links it takes for references is emitted
LabelIsLastText ==
    Called =>
        /\ IsSome(current_link) =>
              label(Unwrap(current_link)) =
                  IF TextsInside = <<>> THEN LastSegment(Unwrap(current_link))
                  ELSE TextsInside[Len(TextsInside)].text
        /\ rendered = RewrittenFrom(events, None, <<>>)

\* a reference with two Text events inside it is open
TwoTextsInside == IsSome(current_link) /\ Len(TextsInside) = 2

---------------------------------------------------------------------------
(* ProtobufPreprocessor::run: the generated pages are put in the book.     *)

MaxSections == 2
MaxFiles == 2
MaxSubItems == 1

\* the packages of the files of the descriptor set
RunPackages == {<<"a">>, <<"a", ".", "b">>, <<"a", "b">>, <<"b">>}

\* the byte of a character
Byte(c) == CASE c = "." -> 46 [] c = "a" -> 97 [] c = "b" -> 98

\* Ord for String: lexicographic on the bytes
RECURSIVE str_lt(_, _)
str_lt(s, t) ==
    IF t = <<>> THEN FALSE
    ELSE IF s = <<>> THEN TRUE
    ELSE IF Byte(Head(s)) # Byte(Head(t)) THEN Byte(Head(s)) < Byte(Head(t))
    ELSE str_lt(Tail(s), Tail(t))

\* BookItem::Separator and BookItem::Chapter
Separator == [kind |-> "Separator"]

Chapter(name, content, path, number, parent_names, sub_items) ==
    [kind |-> "Chapter", name |-> name, content |-> content, path |-> path,
     number |-> number, parent_names |-> parent_names, sub_items |-> sub_items]

\* Chapter::new(name, content, path, parent_names): no number, no sub-items
Chapter_new(name, content, path, parent_names) ==
    Chapter(name, content, Some(path), None, parent_names, <<>>)

\* the content of a page of the book's author, and of a rendered namespace
Authored == <<"authored">>
Rendered(namespace_key) == <<"rendered", namespace_key>>

\* the sub-chapters the author gave a numbered chapter
SubItemsOf(name, number, n) ==
    [k \in 1..n |-> Chapter(<<"S">>, Authored, Some(<<"s">>), Some(number \o <<k>>),
                            <<name>>, <<>>)]

\* the section number of position i: the numbered chapters count from 1
NumberAt(shapes, i) ==
    Cardinality({j \in 1..i : shapes[j].kind = "Chapter" /\ shapes[j].numbered})

Shapes ==
    {[kind |-> "Separator"]}
    \cup {[kind |-> "Chapter", name |-> n, numbered |-> FALSE, subs |-> 0] :
            n \in {<<"A">>, <<"B">>}}
    \cup {[kind |-> "Chapter", name |-> n, numbered |-> TRUE, subs |-> k] :
            n \in {<<"A">>, <<"B">>}, k \in 0..MaxSubItems}

\* prefix and suffix chapters have no number and stand outside the numbered ones
PrefixSuffixOutside(shapes) ==
    \A i, j, k \in 1..Len(shapes) :
        (i < j /\ j < k /\ shapes[i].kind = "Chapter" /\ shapes[i].numbered
            /\ shapes[k].kind = "Chapter" /\ shapes[k].numbered) =>
        ~(shapes[j].kind = "Chapter" /\ ~shapes[j].numbered)

BookOf(shapes) ==
    [i \in 1..Len(shapes) |->
        IF shapes[i].kind = "Separator" THEN Separator
        ELSE IF shapes[i].numbered
        THEN Chapter(shapes[i].name, Authored, Some(<<"c">>), Some(<<NumberAt(shapes, i)>>),
                     <<>>, SubItemsOf(shapes[i].name, <<NumberAt(shapes, i)>>, shapes[i].subs))
        ELSE Chapter(shapes[i].name, Authored, Some(<<"c">>), None, <<>>, <<>>)]

Books ==
    {BookOf(shapes) :
        shapes \in {sh \in UNION {[1..n -> Shapes] : n \in 0..MaxSections} :
                        PrefixSuffixOutside(sh)}}

NestUnders == {None, Some(<<"A">>), Some(<<"C">>)}

FilePackages == UNION {[1..n -> RunPackages] : n \in 0..MaxFiles}

\* the keys of `namespaces` as namespaces.iter() gives them: a BTreeMap
namespace_keys(files) ==
    LET keys == {files[i] : i \in 1..Len(files)}
    IN  CHOOSE o \in Orders(keys) :
            \A i, j \in 1..Len(o) : i < j => str_lt(o[i], o[j])

\* book.sections.iter_mut().find_map(..): the first top-level chapter of the name
target_chapter(sections, nest) ==
    IF IsSome(nest)
          /\ \E i \in 1..Len(sections) :
                sections[i].kind = "Chapter" /\ sections[i].name = Unwrap(nest)
    THEN Some(CHOOSE i \in 1..Len(sections) :
                /\ sections[i].kind = "Chapter" /\ sections[i].name = Unwrap(nest)
                /\ \A j \in 1..(i - 1) :
                      ~(sections[j].kind = "Chapter" /\ sections[j].name = Unwrap(nest)))
    ELSE None

Ok(sections) == [kind |-> "Ok", sections |-> sections]

\* section_number = target.number.unwrap().0; section_number.push(idx + 1)
nested_number(target, idx) == Unwrap(target.number) \o <<idx>>

\* run, from the namespaces on: the chapters of the namespaces, then the loop
\* over them under the target chapter, or the extend of the sections
run(sections, nest, files) ==
    LET keys == namespace_keys(files)
        chapters == [i \in 1..Len(keys) |->
                        Chapter_new(keys[i], Rendered(keys[i]), chapter_path(keys[i]), <<>>)]
        found == target_chapter(sections, nest)
    IN  IF IsSome(found)
        THEN LET target == sections[Unwrap(found)]
             IN  IF chapters = <<>> THEN Ok(sections)
                 ELSE IF target.number = None THEN Panicked
                 ELSE Ok([sections EXCEPT ![Unwrap(found)].sub_items =
                            @ \o [idx \in 1..Len(chapters) |->
                                    [chapters[idx] EXCEPT
                                        !.number = Some(nested_number(target, idx)),
                                        !.parent_names =
                                            target.parent_names \o <<target.name>>]]])
        ELSE Ok(sections \o chapters)

InitRun ==
    /\ book \in Books
    /\ nest_under \in NestUnders
    /\ file_packages \in FilePackages
    /\ processed_book = None
    /\ location = <<>>
    /\ src = None
    /\ packages = {}
    /\ symbol_usages = EmptyGraph
    /\ todo = <<>>
    /\ phase = "index"
    /\ pages_done = 0
    /\ document = <<>>
    /\ before = NoBefore
    /\ IdleRewriter
    /\ fqsl_arg = <<>>
    /\ fqsl_ret = None

\* one call of ProtobufPreprocessor::run(ctx, book)
CallRun ==
    /\ processed_book = None
    /\ processed_book' = Some(run(book, nest_under, file_packages))
    /\ UNCHANGED <<packages, symbol_usages, todo, phase, pages_done, fqsl_arg, fqsl_ret,
                   document, before, location, src, book, nest_under, file_packages>>
    /\ UNCHANGED rewrite_vars

NextRun == CallRun

SpecRun == InitRun /\ [][NextRun]_vars

\* the generated pages among `items`, in their order
PagesIn(items) ==
    SelectSeq(items, LAMBDA c : c.kind = "Chapter" /\ c.content # Authored)

\* the pages are those of the distinct packages, in sorted order
PagesOfPackages(pages) ==
    LET keys == namespace_keys(file_packages)
    IN  /\ Len(pages) = Len(keys)
        /\ \A k \in 1..Len(keys) :
              /\ pages[k].name = keys[k]
              /\ pages[k].path = Some(chapter_path(keys[k]))
              /\ pages[k].sub_items = <<>>

PairwiseDistinctNumbers(items) ==
    \A i, j \in 1..Len(items) : i # j => items[i].number # items[j].number

PagesAppendedNumberedFromOne ==
    IsSome(processed_book) =>
        LET out == Unwrap(processed_book)
            found == target_chapter(book, nest_under)
        IN  IF IsSome(found)
            THEN LET t == Unwrap(found)
                 IN  IF file_packages # <<>> /\ book[t].number = None
                     THEN out = Panicked
                     ELSE /\ out.kind = "Ok"
                          /\ out.sections =
                                [book EXCEPT ![t].sub_items = out.sections[t].sub_items]
                          /\ LET old == book[t].sub_items
                                 new == out.sections[t].sub_items
                                 pages == SubSeq(new, Len(old) + 1, Len(new))
                             IN  /\ SubSeq(new, 1, Len(old)) = old
                                 /\ PagesOfPackages(pages)
                                 /\ \A k \in 1..Len(pages) :
                                       pages[k].number =
                                           Some(Unwrap(book[t].number) \o <<k>>)
            ELSE /\ out.kind = "Ok"
                 /\ SubSeq(out.sections, 1, Len(book)) = book
                 /\ PagesOfPackages(SubSeq(out.sections, Len(book) + 1, Len(out.sections)))

\* pages were nested under a chapter that already had a sub-item
NestedBesideSubItem ==
    /\ IsSome(processed_book)
    /\ Unwrap(processed_book).kind = "Ok"
    /\ IsSome(target_chapter(book, nest_under))
    /\ book[Unwrap(target_chapter(book, nest_under))].sub_items # <<>>
    /\ Len(file_packages) = 2 /\ file_packages[1] # file_packages[2]

====
